---- MODULE Spec2Model ----
(***************************************************************************)
(* Model of the in-memory vector store and the text chunker of main.go.    *)
(*                                                                         *)
(*   vectorStore.add / vectorStore.retrieveTopK / cosineSim   (Spec)       *)
(*   chunkText                                                (ChunkSpec)  *)
(*                                                                         *)
(* Embedding components are small integers, for which the float32          *)
(* products and sums of cosineSim are exact.  The quotient                 *)
(* dot / (sqrt(normA) * sqrt(normB)) is kept symbolically as the pair      *)
(* (num, den2) standing for num / sqrt(den2), and compared exactly.        *)
(* A division by zero follows IEEE 754: 0/0 is NaN, x/0 is +Inf or -Inf.   *)
(***************************************************************************)
EXTENDS Integers, Sequences, FiniteSets, TLC

VARIABLES
    documents,  \* vectorStore.documents
    added,      \* history: the documents passed to add, in call order
    lastOp,     \* the last call made on the store
    queryVec,   \* argument of the last retrieveTopK call
    k,          \* argument of the last retrieveTopK call
    top,        \* value returned by the last retrieveTopK call
    outcome,    \* "returned" or "panic": how the last call ended
    text,       \* argument of chunkText
    maxLen,     \* argument of chunkText
    chunks,     \* value returned by chunkText
    phase       \* "input" before chunkText has run, "done" after

storeVars == <<documents, added, lastOp, queryVec, k, top, outcome>>
chunkVars == <<text, maxLen, chunks, phase>>
vars == <<documents, added, lastOp, queryVec, k, top, outcome, text, maxLen, chunks, phase>>

----------------------------------------------------------------------------
(* Bounds of the model *)

\* Largest number of documents added to the store.
MaxDocs == 3

\* The documents handed to add: three directions with distinct scores
\* against <<1, 0>> (the documents of TestVectorStore_RetrieveTopK_OrderCorrectness,
\* with <<1, 1>> for the direction of [0.5, 0.5]), a negative component,
\* a zero vector and an empty embedding.
Documents ==
    { [text |-> "perfect match", embedding |-> <<1, 0>>],
      [text |-> "partial match", embedding |-> <<1, 1>>],
      [text |-> "orthogonal",    embedding |-> <<0, 1>>],
      [text |-> "opposite",      embedding |-> <<-1, 0>>],
      [text |-> "zero",          embedding |-> <<0, 0>>],
      [text |-> "empty",         embedding |-> <<>>] }

\* Query embeddings: empty, shorter than the two-component embeddings, and
\* two of full length (the second ties "perfect match" with "orthogonal").
Queries == {<<>>, <<1>>, <<1, 0>>, <<1, 1>>}

\* Values of k tried by retrieveTopK: negative, zero, below, at and above
\* the number of stored documents.
Ks == {-1, 0, 1, 2, MaxDocs + 1}

\* Longest text given to chunkText, in characters.
MaxTextLen == 6

\* Largest maxLen given to chunkText; the smallest is -1.
MaxMaxLen == 4

\* Characters of the texts: two letters and two kinds of white space.
Chars == {"a", "b", " ", "\n"}

\* Texts: strings as sequences of characters.
TextInputs == UNION {[1 .. n -> Chars] : n \in 0 .. MaxTextLen}

MaxLens == (-1) .. MaxMaxLen

----------------------------------------------------------------------------
(* float32 scores *)

NaN == [kind |-> "nan", num |-> 0, den2 |-> 0]

Inf(sign) == [kind |-> "inf", num |-> sign, den2 |-> 0]

\* dot / (sqrt(normA) * sqrt(normB)), main.go line 254
Quotient(dot, normA, normB) ==
    IF normA * normB = 0
    THEN IF dot = 0 THEN NaN
         ELSE IF dot > 0 THEN Inf(1) ELSE Inf(-1)
    ELSE [kind |-> "fin", num |-> dot, den2 |-> normA * normB]

IsFinite(s) == s.kind = "fin"

\* x > y on float32 values: FALSE whenever an operand is NaN.
\* Finite values num/sqrt(den2) are compared by their signed squares.
Greater(x, y) ==
    IF x.kind = "nan" \/ y.kind = "nan" THEN FALSE
    ELSE IF x.kind = "inf" THEN
        x.num > 0 /\ ~(y.kind = "inf" /\ y.num > 0)
    ELSE IF y.kind = "inf" THEN
        y.num < 0
    ELSE IF x.num >= 0 /\ y.num < 0 THEN TRUE
    ELSE IF x.num < 0 /\ y.num >= 0 THEN FALSE
    ELSE IF x.num >= 0
         THEN x.num * x.num * y.den2 > y.num * y.num * x.den2
         ELSE x.num * x.num * y.den2 < y.num * y.num * x.den2

----------------------------------------------------------------------------
(* cosineSim *)

\* The panic value of a call that indexes a slice out of range.
Panic == [kind |-> "panic", num |-> 0, den2 |-> 0]

RECURSIVE SumTo(_, _)
\* f[1] + ... + f[n]
SumTo(f, n) == IF n = 0 THEN 0 ELSE SumTo(f, n - 1) + f[n]

\* for i := range a { dot += a[i]*b[i]; normA += a[i]*a[i]; normB += b[i]*b[i] }
\* b[i] with i beyond len(b) panics (index out of range).
cosineSim(a, b) ==
    IF \E i \in 1 .. Len(a) : i > Len(b)
    THEN Panic
    ELSE Quotient(SumTo([i \in 1 .. Len(a) |-> a[i] * b[i]], Len(a)),
                  SumTo([i \in 1 .. Len(a) |-> a[i] * a[i]], Len(a)),
                  SumTo([i \in 1 .. Len(a) |-> b[i] * b[i]], Len(a)))

----------------------------------------------------------------------------
(* sort.Slice(scoredDocs, less) *)

\* less of retrieveTopK: scoredDocs[i].Score > scoredDocs[j].Score
lessAscending(x, y) == Greater(y.Score, x.Score)

less(x, y) == Greater(x.Score, y.Score)

RECURSIVE Insert(_, _)
\* for j := i; j > a && less(j, j-1); j-- { swap(j, j-1) }
Insert(prefix, x) ==
    IF prefix = <<>> \/ ~less(x, prefix[Len(prefix)])
    THEN Append(prefix, x)
    ELSE Append(Insert(SubSeq(prefix, 1, Len(prefix) - 1), x), prefix[Len(prefix)])

RECURSIVE InsertionSortTo(_, _)
InsertionSortTo(s, n) ==
    IF n = 0 THEN <<>> ELSE Insert(InsertionSortTo(s, n - 1), s[n])

\* What sort.Slice runs on a slice of at most 12 elements.
InsertionSort(s) == InsertionSortTo(s, Len(s))

\* The permutations of 1 .. n, for n up to the largest store.
PermsTable ==
    [n \in 0 .. MaxDocs |->
        {p \in [1 .. n -> 1 .. n] : \A i, j \in 1 .. n : i # j => p[i] # p[j]}]

Perms(n) == PermsTable[n]

\* The slices sort.Slice may leave behind.  When less is a strict weak
\* ordering of the elements (no NaN score), the slice ends sorted and the
\* order of equal elements is unspecified (sort.Slice is not stable).
\* With a NaN score less is no ordering and the contract of sort.Slice is
\* void; the result is what the insertion sort makes of it.
SortSlice(s) ==
    IF \E i \in 1 .. Len(s) : s[i].Score.kind = "nan"
    THEN {InsertionSort(s)}
    ELSE {[i \in 1 .. Len(s) |-> s[p[i]]] : p \in
             {q \in Perms(Len(s)) :
                 \A i \in 1 .. Len(s) - 1 : ~less(s[q[i + 1]], s[q[i]])}}

----------------------------------------------------------------------------
(* vectorStore *)

\* vs.documents = append(vs.documents, doc)
addPrepend(docs, doc) == <<doc>> \o docs

appendDoc(docs, doc) == Append(docs, doc)

\* for _, doc := range vs.documents { scoredDocs = append(scoredDocs, scored{doc, cosineSim(queryVec, doc.embedding)}) }
Scored(docs, q) ==
    [i \in 1 .. Len(docs) |-> [Doc |-> docs[i], Score |-> cosineSim(q, docs[i].embedding)]]

RECURSIVE TopLoopOffByOne(_, _, _, _)
TopLoopOffByOne(scoredDocs, kk, i, acc) ==
    IF i <= kk /\ i < Len(scoredDocs)
    THEN TopLoopOffByOne(scoredDocs, kk, i + 1, Append(acc, scoredDocs[i + 1].Doc))
    ELSE acc

RECURSIVE TopLoop(_, _, _, _)
\* for i := 0; i < k && i < len(scoredDocs); i++ { top = append(top, scoredDocs[i].Doc) }
TopLoop(scoredDocs, kk, i, acc) ==
    IF i < kk /\ i < Len(scoredDocs)
    THEN TopLoop(scoredDocs, kk, i + 1, Append(acc, scoredDocs[i + 1].Doc))
    ELSE acc

\* newVectorStore()
newVectorStore ==
    /\ documents = <<>>
    /\ added = <<>>
    /\ lastOp = "newVectorStore"
    /\ queryVec = <<>>
    /\ k = 0
    /\ top = <<>>
    /\ outcome = "returned"

Init ==
    /\ newVectorStore
    /\ text = <<>>
    /\ maxLen = 0
    /\ chunks = <<>>
    /\ phase = "input"

\* vs.add(doc)
add(doc) ==
    /\ outcome # "panic"
    /\ Len(documents) < MaxDocs
    /\ documents' = appendDoc(documents, doc)
    /\ added' = Append(added, doc)
    /\ lastOp' = "add"
    /\ queryVec' = <<>>
    /\ k' = 0
    /\ top' = <<>>
    /\ outcome' = "returned"
    /\ UNCHANGED chunkVars

\* retrieveTopK sorting vs.documents itself instead of the scored copy
retrieveTopKInPlace(q, kk) ==
    LET scoredDocs == Scored(documents, q) IN
    /\ outcome # "panic"
    /\ lastOp' = "retrieveTopK"
    /\ queryVec' = q
    /\ k' = kk
    /\ IF \E i \in 1 .. Len(scoredDocs) : scoredDocs[i].Score = Panic
       THEN /\ outcome' = "panic"
            /\ top' = <<>>
            /\ documents' = documents
       ELSE /\ outcome' = "returned"
            /\ \E sorted \in SortSlice(scoredDocs) :
                   /\ top' = TopLoop(sorted, kk, 0, <<>>)
                   /\ documents' = [i \in 1 .. Len(sorted) |-> sorted[i].Doc]
    /\ UNCHANGED added
    /\ UNCHANGED chunkVars

\* vs.retrieveTopK(q, kk)
retrieveTopK(q, kk) ==
    LET scoredDocs == Scored(documents, q) IN
    /\ outcome # "panic"
    /\ lastOp' = "retrieveTopK"
    /\ queryVec' = q
    /\ k' = kk
    /\ IF \E i \in 1 .. Len(scoredDocs) : scoredDocs[i].Score = Panic
       THEN /\ outcome' = "panic"
            /\ top' = <<>>
       ELSE /\ outcome' = "returned"
            /\ \E sorted \in SortSlice(scoredDocs) :
                   top' = TopLoop(sorted, kk, 0, <<>>)
    /\ UNCHANGED <<documents, added>>
    /\ UNCHANGED chunkVars

Next ==
    \/ \E doc \in Documents : add(doc)
    \/ \E q \in Queries, kk \in Ks : retrieveTopK(q, kk)

Spec == Init /\ [][Next]_vars

----------------------------------------------------------------------------
(* chunkText *)

\* unicode.IsSpace, on the characters of the model
IsSpace(c) == c \in {" ", "\n"}

RECURSIVE FieldsFrom(_, _, _, _)
\* The scan of strings.Fields from position i: word is the word being
\* read, acc the words already closed.
FieldsFrom(s, i, word, acc) ==
    IF i > Len(s)
    THEN IF word # <<>> THEN Append(acc, word) ELSE acc
    ELSE IF IsSpace(s[i])
         THEN FieldsFrom(s, i + 1, <<>>, IF word # <<>> THEN Append(acc, word) ELSE acc)
         ELSE FieldsFrom(s, i + 1, Append(word, s[i]), acc)

RECURSIVE SplitFrom(_, _, _, _)
\* A scan that closes a word at every white-space character, empty or not.
SplitFrom(s, i, word, acc) ==
    IF i > Len(s)
    THEN Append(acc, word)
    ELSE IF IsSpace(s[i])
         THEN SplitFrom(s, i + 1, <<>>, Append(acc, word))
         ELSE SplitFrom(s, i + 1, Append(word, s[i]), acc)

\* Fields splitting at every white-space character, as strings.Split does
FieldsKeepsEmpty(s) == SplitFrom(s, 1, <<>>, <<>>)

\* strings.Fields(s): the maximal runs of non-space characters, in order
Fields(s) == FieldsFrom(s, 1, <<>>, <<>>)

RECURSIVE Join(_, _)
\* strings.Join(elems, sep)
Join(elems, sep) ==
    IF elems = <<>> THEN <<>>
    ELSE IF Len(elems) = 1 THEN elems[1]
    ELSE elems[1] \o sep \o Join(Tail(elems), sep)

RECURSIVE ChunkLoopDropsWord(_, _, _, _, _)
\* the loop of chunkText starting the new buffer empty on overflow
ChunkLoopDropsWord(words, max, i, buf, acc) ==
    IF i > Len(words)
    THEN IF Len(buf) > 0 THEN Append(acc, Join(buf, <<" ">>)) ELSE acc
    ELSE LET word == words[i]
             testBuf == Append(buf, word)
             testChunk == Join(testBuf, <<" ">>)
         IN  IF Len(testChunk) > max /\ Len(buf) > 0
             THEN ChunkLoopDropsWord(words, max, i + 1, <<>>, Append(acc, Join(buf, <<" ">>)))
             ELSE ChunkLoopDropsWord(words, max, i + 1, Append(buf, word), acc)

RECURSIVE ChunkLoopIgnoresSpaces(_, _, _, _, _)
\* the loop of chunkText measuring the words without the joining spaces
ChunkLoopIgnoresSpaces(words, max, i, buf, acc) ==
    IF i > Len(words)
    THEN IF Len(buf) > 0 THEN Append(acc, Join(buf, <<" ">>)) ELSE acc
    ELSE LET word == words[i]
             testBuf == Append(buf, word)
             testChunk == Join(testBuf, <<>>)
         IN  IF Len(testChunk) > max /\ Len(buf) > 0
             THEN ChunkLoopIgnoresSpaces(words, max, i + 1, <<word>>, Append(acc, Join(buf, <<" ">>)))
             ELSE ChunkLoopIgnoresSpaces(words, max, i + 1, Append(buf, word), acc)

RECURSIVE ChunkLoopSplitsAtLimit(_, _, _, _, _)
\* the loop of chunkText closing the buffer already at len(testChunk) >= maxLen
ChunkLoopSplitsAtLimit(words, max, i, buf, acc) ==
    IF i > Len(words)
    THEN IF Len(buf) > 0 THEN Append(acc, Join(buf, <<" ">>)) ELSE acc
    ELSE LET word == words[i]
             testBuf == Append(buf, word)
             testChunk == Join(testBuf, <<" ">>)
         IN  IF Len(testChunk) >= max /\ Len(buf) > 0
             THEN ChunkLoopSplitsAtLimit(words, max, i + 1, <<word>>, Append(acc, Join(buf, <<" ">>)))
             ELSE ChunkLoopSplitsAtLimit(words, max, i + 1, Append(buf, word), acc)

RECURSIVE ChunkLoop(_, _, _, _, _)
\* for _, word := range words { ... } followed by the final flush of buf;
\* i is the position of the next word, acc the chunks closed so far.
ChunkLoop(words, max, i, buf, acc) ==
    IF i > Len(words)
    THEN IF Len(buf) > 0 THEN Append(acc, Join(buf, <<" ">>)) ELSE acc
    ELSE LET word == words[i]
             testBuf == Append(buf, word)
             testChunk == Join(testBuf, <<" ">>)
         IN  IF Len(testChunk) > max /\ Len(buf) > 0
             THEN ChunkLoop(words, max, i + 1, <<word>>, Append(acc, Join(buf, <<" ">>)))
             ELSE ChunkLoop(words, max, i + 1, Append(buf, word), acc)

\* chunkText(text, maxLen)
chunkText(t, max) ==
    IF max <= 0
    THEN Fields(t)
    ELSE LET words == Fields(t) IN
         IF Len(words) = 0 THEN <<>> ELSE ChunkLoop(words, max, 1, <<>>, <<>>)

\* The inputs of a call of chunkText.
ChunkInit ==
    /\ newVectorStore
    /\ text \in TextInputs
    /\ maxLen \in MaxLens
    /\ chunks = <<>>
    /\ phase = "input"

\* chunks := chunkText(text, maxLen)
ChunkTextCall ==
    /\ phase = "input"
    /\ chunks' = chunkText(text, maxLen)
    /\ phase' = "done"
    /\ UNCHANGED <<text, maxLen>>
    /\ UNCHANGED storeVars

ChunkNext == ChunkTextCall

ChunkSpec == ChunkInit /\ [][ChunkNext]_vars

----------------------------------------------------------------------------
(* Properties of the vector store *)

Min(a, b) == IF a < b THEN a ELSE b

Max(a, b) == IF a > b THEN a ELSE b

\* The score retrieveTopK gave document d in the last call.
ScoreOf(d) == cosineSim(queryVec, d.embedding)

\* x >= y on float32 values (FALSE whenever an operand is NaN).
GreaterEq(x, y) ==
    /\ x.kind # "nan"
    /\ y.kind # "nan"
    /\ ~Greater(y, x)

Retrieved == lastOp = "retrieveTopK" /\ outcome = "returned"

\* Every stored embedding has the query's length and a finite score.
SameLengthFinite ==
    \A i \in 1 .. Len(documents) :
        /\ Len(documents[i].embedding) = Len(queryVec)
        /\ IsFinite(ScoreOf(documents[i]))

\* The injections of 1 .. n into 1 .. m.
Injections(n, m) ==
    {f \in [1 .. n -> 1 .. m] : \A i, j \in 1 .. n : i # j => f[i] # f[j]}

\* top[i] = documents[f[i]] for every position of top
Selects(f) == \A i \in 1 .. Len(top) : top[i] = documents[f[i]]

\* No stored position that f leaves out scores strictly higher than a
\* returned document.
NothingBetterLeftOut(f) ==
    \A j \in 1 .. Len(documents) :
        (\A i \in 1 .. Len(top) : f[i] # j) =>
            \A i \in 1 .. Len(top) : ~Greater(ScoreOf(documents[j]), ScoreOf(top[i]))

\* top is sorted by descending score.
Descending ==
    \A i \in 1 .. Len(top) - 1 : GreaterEq(ScoreOf(top[i]), ScoreOf(top[i + 1]))

\* C1: with k >= 1, every stored embedding of the query's length and every
\* score finite, retrieveTopK returns documents taken from distinct store
\* positions, and no stored document left out of the result scores strictly
\* higher than a returned one.
C1_TopKSelection ==
    (lastOp = "retrieveTopK" /\ k >= 1 /\ SameLengthFinite) =>
        /\ outcome = "returned"
        /\ Len(top) <= Len(documents)
        /\ \E f \in Injections(Len(top), Len(documents)) :
               Selects(f) /\ NothingBetterLeftOut(f)

\* A retrieval that had to choose: three documents with three distinct
\* scores, stored in an order that is not the score order, and k = 1.
C1_Witness ==
    /\ Retrieved /\ k = 1 /\ SameLengthFinite
    /\ Len(documents) = 3
    /\ Len(top) = 1
    /\ top[1] # documents[1]
    /\ \A i \in 1 .. 3 : documents[i] # top[1] => Greater(ScoreOf(top[1]), ScoreOf(documents[i]))
    /\ \E i \in 1 .. 3 : documents[i] # top[1]

\* C2: on a non-empty store with k >= 1 (embeddings of the query's length,
\* finite scores) retrieveTopK returns exactly min(k, storedCount) documents
\* and no document of the result scores less than the one after it.
C2_CountAndOrder ==
    (lastOp = "retrieveTopK" /\ k >= 1 /\ documents # <<>> /\ SameLengthFinite) =>
        /\ outcome = "returned"
        /\ Len(top) = Min(k, Len(documents))
        /\ \A i \in 1 .. Len(top) - 1 :
               ~Greater(ScoreOf(top[i + 1]), ScoreOf(top[i]))

\* k = 2 cuts a store of three whose first two results differ in score.
C2_Witness ==
    /\ Retrieved /\ k = 2 /\ SameLengthFinite
    /\ Len(documents) = 3
    /\ Len(top) = 2
    /\ Greater(ScoreOf(top[1]), ScoreOf(top[2]))

\* dot/(norm*norm) over the first min(len(a), len(b)) element pairs
TruncatedCosine(a, b) ==
    LET n == Min(Len(a), Len(b)) IN
    Quotient(SumTo([i \in 1 .. n |-> a[i] * b[i]], n),
             SumTo([i \in 1 .. n |-> a[i] * a[i]], n),
             SumTo([i \in 1 .. n |-> b[i] * b[i]], n))

\* C3: cosineSim does not fail on vectors of different lengths, whichever
\* is the longer: a retrieval that scores a stored embedding whose length
\* differs from the query's completes, with each score computed over the
\* first min(len(a), len(b)) element pairs.
C3_NoFailureOnMismatch ==
    (/\ lastOp = "retrieveTopK"
     /\ \E i \in 1 .. Len(documents) : Len(documents[i].embedding) # Len(queryVec)) =>
        /\ outcome = "returned"
        /\ \A i \in 1 .. Len(documents) :
               ScoreOf(documents[i]) = TruncatedCosine(queryVec, documents[i].embedding)

\* The stored documents with a finite score against the last query.
NumberOfValid == Cardinality({i \in 1 .. Len(documents) : IsFinite(ScoreOf(documents[i]))})

\* C4: when the store holds documents with finite and with non-finite
\* scores, retrieveTopK ranks every finite score before every non-finite
\* one: it returns the first min(k, count, number of valid entries)
\* finite-score documents in descending order, whatever the insertion order.
C4_UndefinedScoresRankLast ==
    (/\ Retrieved
     /\ \E i \in 1 .. Len(documents) : IsFinite(ScoreOf(documents[i]))
     /\ \E i \in 1 .. Len(documents) : ~IsFinite(ScoreOf(documents[i]))) =>
        /\ Len(top) = Max(0, Min(k, Min(Len(documents), NumberOfValid)))
        /\ \A i \in 1 .. Len(top) : IsFinite(ScoreOf(top[i]))
        /\ Descending
        /\ \E f \in Injections(Len(top), Len(documents)) :
               Selects(f) /\ NothingBetterLeftOut(f)

\* C5: add and retrieveTopK have no error outcome: whatever k, the query
\* and the store, every call completes and returns.
C5_NoErrorOutcome ==
    /\ outcome = "returned"
    /\ lastOp = "retrieveTopK" => Len(top) <= Len(documents)

\* C6: retrieveTopK is read-only: a step of retrieveTopK leaves the stored
\* document sequence as it was (length, order, texts and embeddings).
C6_RetrieveReadOnly ==
    [][lastOp' = "retrieveTopK" => documents' = documents]_vars

\* A retrieval that returned the whole store in an order other than the
\* stored one.
C6_Witness ==
    /\ Retrieved
    /\ Len(documents) >= 2
    /\ Len(top) = Len(documents)
    /\ top # documents

\* C7: after any interleaving of add and retrieveTopK the stored sequence
\* is exactly the sequence of documents passed to add, in call order,
\* whatever their embedding lengths.
C7_StoreIsAddHistory ==
    documents = added

\* Documents of three embedding lengths (two, zero, two) added in that
\* order, then a retrieval.
C7_Witness ==
    /\ Retrieved
    /\ Len(documents) = 3
    /\ documents[1] # documents[3]
    /\ documents[2].embedding = <<>>
    /\ Len(documents[1].embedding) = 2

\* C8: retrieveTopK returns an empty sequence whenever k <= 0, whatever the
\* store and the query, and whenever the store is empty, whatever k and
\* the query.
C8_EmptyResult ==
    (lastOp = "retrieveTopK" /\ (k <= 0 \/ documents = <<>>)) =>
        /\ outcome = "returned"
        /\ top = <<>>

\* C9: when k exceeds the stored count retrieveTopK returns all stored
\* documents: a permutation of the stored sequence in descending score
\* order.
C9_AllEntriesWhenKExceeds ==
    (lastOp = "retrieveTopK" /\ k > Len(documents)) =>
        /\ outcome = "returned"
        /\ Len(top) = Len(documents)
        /\ \E f \in Injections(Len(top), Len(documents)) : Selects(f)
        /\ Descending

----------------------------------------------------------------------------
(* Properties of chunkText *)

RECURSIVE NormalizeFrom(_, _, _, _)
\* The white-space normal form read character by character: out is the
\* text written so far, gap tells that white space was skipped since the
\* last letter written.
NormalizeFrom(s, i, out, gap) ==
    IF i > Len(s) THEN out
    ELSE IF IsSpace(s[i])
         THEN NormalizeFrom(s, i + 1, out, out # <<>>)
         ELSE NormalizeFrom(s, i + 1,
                            (IF gap THEN Append(out, " ") ELSE out) \o <<s[i]>>,
                            FALSE)

\* The text with every run of white space replaced by one space and the
\* leading and trailing white space removed.
Normalized(s) == NormalizeFrom(s, 1, <<>>, FALSE)

RECURSIVE WordsOf(_)
\* The words of the fragments, read in order.
WordsOf(fragments) ==
    IF fragments = <<>> THEN <<>>
    ELSE Fields(fragments[1]) \o WordsOf(Tail(fragments))

\* C10: for every text and every positive maxLen, the fragments of
\* chunkText joined by single spaces are the white-space normalized text,
\* and the words of the fragments, in order, are the words of the text.
C10_RoundTrip ==
    (phase = "done" /\ maxLen > 0) =>
        /\ Join(chunks, <<" ">>) = Normalized(text)
        /\ WordsOf(chunks) = Fields(text)

\* A text with irregular white space cut into several fragments, one of
\* them of more than one word.
C10_Witness ==
    /\ phase = "done" /\ maxLen > 0
    /\ Len(chunks) >= 2
    /\ \E i \in 1 .. Len(chunks) : Len(Fields(chunks[i])) >= 2
    /\ text # Normalized(text)

\* The number of words of a fragment: one more than its white-space
\* characters when it neither starts nor ends with one.
CountSpaces(f) == Cardinality({i \in 1 .. Len(f) : IsSpace(f[i])})

\* The fragment is one word: not empty, no white space in it.
IsOneWord(f) == f # <<>> /\ CountSpaces(f) = 0

\* The first word of a fragment: its characters up to the first space.
FirstWord(f) ==
    IF CountSpaces(f) = 0 THEN f
    ELSE SubSeq(f, 1, (CHOOSE i \in 1 .. Len(f) :
                          IsSpace(f[i]) /\ \A j \in 1 .. i - 1 : ~IsSpace(f[j])) - 1)

\* C11: for maxLen > 0 every fragment of chunkText is at most maxLen long,
\* except a fragment that is one word longer than maxLen; a fragment of
\* two or more words is never longer than maxLen, and a word that brings
\* the joined length to exactly maxLen is taken into the fragment.
C11_LengthBound ==
    (phase = "done" /\ maxLen > 0) =>
        /\ \A i \in 1 .. Len(chunks) :
               Len(chunks[i]) <= maxLen \/ IsOneWord(chunks[i])
        /\ \A i \in 1 .. Len(chunks) - 1 :
               Len(chunks[i]) + 1 + Len(FirstWord(chunks[i + 1])) # maxLen

\* Several fragments, one of them of two words or more filling maxLen
\* exactly.
C11_Witness ==
    /\ phase = "done" /\ maxLen > 0
    /\ Len(chunks) >= 2
    /\ \E i \in 1 .. Len(chunks) :
           CountSpaces(chunks[i]) >= 1 /\ Len(chunks[i]) = maxLen

\* C12: for maxLen <= 0 chunkText returns one fragment per word, in order,
\* each fragment being that word whatever its length; for an empty or
\* white-space-only text it returns the empty sequence, for every maxLen.
C12_DegenerateChunking ==
    phase = "done" =>
        /\ maxLen <= 0 =>
               /\ \A i \in 1 .. Len(chunks) : IsOneWord(chunks[i])
               /\ Join(chunks, <<" ">>) = Normalized(text)
        /\ (\A i \in 1 .. Len(text) : IsSpace(text[i])) => chunks = <<>>

\* maxLen <= 0, a text with irregular white space, and two words or more,
\* one of them of two characters or more.
C12_Witness ==
    /\ phase = "done" /\ maxLen <= 0
    /\ Len(chunks) >= 2
    /\ \E i \in 1 .. Len(chunks) : Len(chunks[i]) >= 2
    /\ text # Normalized(text)

\* C13: for maxLen > 0 a fragment is closed only when the next word does
\* not fit: for consecutive fragments f and g,
\* len(f) + 1 + len(first word of g) > maxLen.
C13_GreedyMaximality ==
    (phase = "done" /\ maxLen > 0) =>
        \A i \in 1 .. Len(chunks) - 1 :
            Len(chunks[i]) + 1 + Len(FirstWord(chunks[i + 1])) > maxLen

\* A fragment of two words closed because the next word would exceed
\* maxLen by exactly one character.
C13_Witness ==
    /\ phase = "done" /\ maxLen > 0
    /\ Len(chunks) >= 2
    /\ CountSpaces(chunks[1]) >= 1
    /\ Len(chunks[1]) + 1 + Len(FirstWord(chunks[2])) = maxLen + 1

====
